---- MODULE Spec2Model ----
(***************************************************************************)
(* Translation dispatcher of src-tauri/src/services/mod.rs: the aggregate  *)
(* entry point translate and the streaming entry point translate_stream,   *)
(* one spawned task per requested provider, the fan-in over the join       *)
(* handles, and the adapters as far as the dispatcher observes them.       *)
(*                                                                         *)
(* Strings that the code inspects character by character (translated text, *)
(* stream fragments) are sequences of one-character strings; names, keys   *)
(* and error messages are TLA+ strings.  Option<T> is None / Some(v).      *)
(***************************************************************************)
EXTENDS Integers, Sequences, FiniteSets, TLC

\* ---- bounds of the model ----
MaxServices == 2      \* longest request.services list explored
MaxDeltas == 2        \* most delta events explored in one translate_stream call
MaxPieces == 3        \* most pieces of text in one response stream of a streaming adapter
MaxEnvLines == 2      \* most lines of the .env file
MaxSentences == 2     \* most sentence entries in one response of the unauthenticated provider
MaxShortcuts == 2     \* most handle_shortcut invocations explored

\* ---- Option<T> ----
None == [some |-> FALSE]
Some(v) == [some |-> TRUE, val |-> v]

\* ---- strings as character sequences ----
RECURSIVE TrimStart(_)
TrimStart(s) == IF s # <<>> /\ Head(s) = " " THEN TrimStart(Tail(s)) ELSE s

RECURSIVE TrimEnd(_)
TrimEnd(s) ==
    IF s # <<>> /\ s[Len(s)] = " " THEN TrimEnd(SubSeq(s, 1, Len(s) - 1)) ELSE s

\* str::trim
Trim(s) == TrimEnd(TrimStart(s))

RECURSIVE Concat(_)
Concat(ss) == IF ss = <<>> THEN <<>> ELSE Head(ss) \o Concat(Tail(ss))

\* ---- provider names ----
\* to_lowercase as if the name were matched as the caller spelled it
to_lowercase_Identity(s) == s

\* str::to_lowercase on the names a request may carry
to_lowercase(s) ==
    CASE s = "OpenAI" -> "openai"
      [] s = "Claude" -> "claude"
      [] s = "Ernie" -> "ernie"
      [] s = "Wenxin" -> "wenxin"
      [] s = "Zhipu" -> "zhipu"
      [] s = "ZHIPU" -> "zhipu"
      [] s = "Groq" -> "groq"
      [] s = "Gemini" -> "gemini"
      [] s = "DeepL" -> "deepl"
      [] s = "Google" -> "google"
      [] s = "Alibaba" -> "alibaba"
      [] s = "GoogleFree" -> "googlefree"
      [] s = "Google Native" -> "google native"
      [] s = "BadProvider" -> "badprovider"
      [] OTHER -> s

\* the third, Chinese spelling of the ernie provider's name (the four code points
\* U+6587 U+5FC3 U+4E00 U+8A00), written in ASCII; it has no upper or lower case
WenxinYiyan == "U+6587U+5FC3U+4E00U+8A00"

\* the list used when request.services is empty
DefaultServices == <<"OpenAI", "DeepL", "Alibaba", "GoogleFree">>

\* EffectiveServices as if an empty request.services were used as it is
EffectiveServices_NoDefault(req) == req.services

EffectiveServices(req) ==
    IF req.services = <<>> THEN DefaultServices ELSE req.services

\* ---- configuration ----
\* serde_json::Value of a config entry: a JSON string or some other JSON value
JStr(s) == [str |-> TRUE, s |-> s]
JOther == [str |-> FALSE]
as_str(v) == IF v.str THEN Some(v.s) ELSE None

\* Value::get(key) on a provider's config object (a function key -> Value)
get(obj, key) == IF key \in DOMAIN obj THEN Some(obj[key]) ELSE None

\* service_config = config.as_ref().and_then(|c| c.get(&service_name.to_lowercase()))
service_config(config, service_name) ==
    IF config.some THEN get(config.val, to_lowercase(service_name)) ELSE None

\* has_nonempty_str as if an empty string counted as a credential
has_nonempty_str_AllowsEmpty(sc, key) ==
    /\ sc.some
    /\ get(sc.val, key).some
    /\ as_str(get(sc.val, key).val).some

\* service_config.and_then(|c| c.get(key)).and_then(|k| k.as_str())
\*               .map(|k| !k.is_empty()).unwrap_or(false)
has_nonempty_str(sc, key) ==
    /\ sc.some
    /\ get(sc.val, key).some
    /\ as_str(get(sc.val, key).val).some
    /\ as_str(get(sc.val, key).val).val # ""

check_api_key(sc) == has_nonempty_str(sc, "apiKey")

\* or_insert as if the value replaced an entry the object already has (insert)
or_insert_Overwrites(obj, key, value) ==
    [k \in DOMAIN obj \cup {key} |-> IF k = key THEN value ELSE obj[k]]

\* obj.entry(key).or_insert(value)
or_insert(obj, key, value) ==
    IF key \in DOMAIN obj THEN obj
    ELSE [k \in DOMAIN obj \cup {key} |-> IF k = key THEN value ELSE obj[k]]

EmptyObj == [k \in {} |-> JOther]

DefaultApiUrl(provider) ==
    CASE provider = "zhipu" -> "https://open.bigmodel.cn/api/paas/v4/chat/completions"
      [] provider = "groq" -> "https://api.groq.com/openai/v1/chat/completions"
      [] provider = "gemini" -> "https://generativelanguage.googleapis.com/v1beta/openai/chat/completions"

DefaultModel(provider) ==
    CASE provider = "zhipu" -> "glm-4-flash"
      [] provider = "groq" -> "llama3-8b-8192"
      [] provider = "gemini" -> "gemini-1.5-flash"

\* service_config.cloned().unwrap_or(json!({})) followed by the two or_insert calls
with_defaults(sc, provider) ==
    LET config_obj == IF sc.some THEN sc.val ELSE EmptyObj
    IN  or_insert(or_insert(config_obj, "apiUrl", JStr(DefaultApiUrl(provider))),
                  "model", JStr(DefaultModel(provider)))

\* ---- results and events ----
TranslationResult(name, text, error) == [name |-> name, text |-> text, error |-> error]

\* make_error_result as if the result kept a text next to its error
make_error_result_KeepsText(name, error) == TranslationResult(name, <<"?">>, Some(error))

make_error_result(name, error) == TranslationResult(name, <<>>, Some(error))

StreamPayload(request_id, service, delta, text, error, done, all_done, task) ==
    [request_id |-> request_id, service |-> service, delta |-> delta, text |-> text,
     error |-> error, done |-> done, all_done |-> all_done,
     task |-> task]   \* task: which spawned task emitted it (0: the dispatcher); not a field of the payload

\* ---- adapters, as far as the dispatcher observes them ----
\* Result<T, E>
Ok(v) == [ok |-> TRUE, val |-> v]
Err(e) == [ok |-> FALSE, err |-> e]

\* bodies a provider may return in the translation field of a 2xx response
Contents == {<<"h", "i">>, <<" ">>}

\* what the network gives one adapter call: a failure (transport error, non-2xx
\* status, missing field) or a 2xx response carrying a translation field
WireResponses == {[ok |-> FALSE]} \cup {[ok |-> TRUE, content |-> c] : c \in Contents}

AdapterError(adapter) ==
    CASE adapter = "openai" -> "OpenAI API error: "
      [] adapter = "claude" -> "API error: Claude - "
      [] adapter = "ernie" -> "API error: Ernie - "
      [] adapter = "deepl" -> "DeepL API error: "
      [] adapter = "google" -> "Google Translate API error: "
      [] adapter = "alibaba" -> "Alibaba API error: "
      [] adapter = "google_free" -> "Google Free API request failed: "

AdapterName(adapter) ==
    CASE adapter = "openai" -> "OpenAI"
      [] adapter = "claude" -> "Claude"
      [] adapter = "ernie" -> "Ernie"
      [] adapter = "deepl" -> "DeepL"
      [] adapter = "google" -> "Google"
      [] adapter = "alibaba" -> "Alibaba"
      [] adapter = "google_free" -> "GoogleFree"

\* <adapter>::translate(text, source_lang, target_lang, config) on one wire response
adapter_translate(adapter, wire) ==
    IF ~wire.ok THEN Err(AdapterError(adapter))
    ELSE CASE adapter \in {"openai", "claude", "ernie"} ->
                Ok(TranslationResult(AdapterName(adapter), Trim(wire.content), None))
           [] adapter \in {"deepl", "google", "alibaba"} ->
                Ok(TranslationResult(AdapterName(adapter), wire.content, None))
           [] adapter = "google_free" ->
                IF wire.content = <<>> THEN Err("No translation found in response")
                ELSE Ok(TranslationResult("GoogleFree", wire.content, None))

\* the k-th content fragment of the provider's event stream: "Bon", "jour", "Bon", ..
Fragment(k) == IF k % 2 = 1 THEN <<"B", "o", "n">> ELSE <<"j", "o", "u", "r">>

\* ---- per-provider resolution, aggregate mode (the match in translate) ----
Invoke(adapter, config, display) ==
    [invoke |-> TRUE, adapter |-> adapter, config |-> config, display |-> display,
     result |-> None]
Skip(result) ==
    [invoke |-> FALSE, adapter |-> "", config |-> None, display |-> "",
     result |-> Some(result)]

AggregateResolve(service_name, config) ==
    LET sc == service_config(config, service_name)
        lower == to_lowercase(service_name)
    IN  CASE lower = "openai" ->
                IF ~check_api_key(sc) THEN Skip(make_error_result("OpenAI", "No API key configured"))
                ELSE Invoke("openai", sc, "OpenAI")
          [] lower = "claude" ->
                IF ~check_api_key(sc) THEN Skip(make_error_result("Claude", "No API key configured"))
                ELSE Invoke("claude", sc, "Claude")
          [] lower \in {"ernie", "wenxin", WenxinYiyan} ->
                IF ~has_nonempty_str(sc, "apiKey") \/ ~has_nonempty_str(sc, "secretKey")
                THEN Skip(make_error_result("Ernie", "API key and secret key required"))
                ELSE Invoke("ernie", sc, "Ernie")
          [] lower = "zhipu" ->
                IF ~check_api_key(sc) THEN Skip(make_error_result("Zhipu", "No API key configured"))
                ELSE Invoke("openai", Some(with_defaults(sc, "zhipu")), "Zhipu")
          [] lower = "groq" -> Invoke("openai", Some(with_defaults(sc, "groq")), "Groq")
          [] lower = "gemini" -> Invoke("openai", Some(with_defaults(sc, "gemini")), "Gemini")
          [] lower = "deepl" -> Invoke("deepl", sc, "DeepL")
          [] lower = "google" -> Invoke("google", sc, "Google")
          [] lower = "alibaba" -> Invoke("alibaba", sc, "Alibaba")
          [] lower \in {"googlefree", "google native"} -> Invoke("google_free", sc, "GoogleFree")
          [] OTHER -> Skip(make_error_result(service_name, "Service not supported"))

\* AggregateOutcome as if the name the adapter put in its result were always kept
AggregateOutcome_KeepsAdapterName(display, res) ==
    IF res.ok THEN [res.val EXCEPT !.error = None]
    ELSE make_error_result(display, res.err)

\* the match on the adapter's Result in each arm of translate
AggregateOutcome(display, res) ==
    IF res.ok
    THEN [res.val EXCEPT !.name = IF display \in {"Zhipu", "Groq", "Gemini"} THEN display ELSE @,
                         !.error = None]
    ELSE make_error_result(display, res.err)

\* ---- per-provider resolution, streaming mode (the match in translate_stream) ----
StreamSkip(error) == [kind |-> "error", adapter |-> "", config |-> None, error |-> error]
StreamInvoke(kind, adapter, config) ==
    [kind |-> kind, adapter |-> adapter, config |-> config, error |-> ""]

StreamResolve(service_name, config) ==
    LET sc == service_config(config, service_name)
        lower == to_lowercase(service_name)
    IN  CASE lower \in {"openai", "zhipu", "groq", "gemini"} ->
                IF ~check_api_key(sc) THEN StreamSkip("No API key configured")
                ELSE StreamInvoke("stream", "openai",
                        Some(IF lower = "openai" THEN sc.val ELSE with_defaults(sc, lower)))
          [] lower = "claude" ->
                IF ~check_api_key(sc) THEN StreamSkip("No API key configured")
                ELSE StreamInvoke("stream", "claude", sc)
          [] lower \in {"ernie", "wenxin", WenxinYiyan} ->
                IF ~has_nonempty_str(sc, "apiKey") \/ ~has_nonempty_str(sc, "secretKey")
                THEN StreamSkip("API key and secret key required")
                ELSE StreamInvoke("stream", "ernie", sc)
          [] lower = "deepl" -> StreamInvoke("call", "deepl", sc)
          [] lower = "google" -> StreamInvoke("call", "google", sc)
          [] lower = "alibaba" -> StreamInvoke("call", "alibaba", sc)
          [] lower \in {"googlefree", "google native"} -> StreamInvoke("call", "google_free", sc)
          [] OTHER -> StreamSkip("Service not supported")

\* ---- state ----
VARIABLES
    pc,             \* the dispatcher: "idle", "fanin" (tasks spawned, awaiting handles), "returned"
    mode,           \* which entry point runs: "aggregate" (translate) or "stream" (translate_stream)
    request,        \* the TranslationRequest: services, config
    request_id,     \* translate_stream's request_id
    tasks,          \* one record per spawned task, in the order of handles
    joined,         \* number of handles the fan-in loop has awaited
    final_results,  \* translate's final_results
    ret,            \* the value the entry point returned, None while it runs
    events,         \* every payload handed to emit("translation-stream", ..), in emit order
    sink,           \* the event sink: whether app_handle.emit succeeds now (ok), and the
                    \* positions in events of the payloads whose emit returned Err (lost)
    parser,         \* one <adapter>::translate_stream call reading its response stream
    call,           \* one call of a non-streaming adapter: its inputs and what it did
    is_processing,  \* HotkeyState.is_processing, the value behind the Mutex
    handlers        \* one record per handle_shortcut invocation, in order of arrival,
                    \* followed through the action it triggered

vars == <<pc, mode, request, request_id, tasks, joined, final_results, ret, events, sink,
          parser, call, is_processing, handlers>>

\* ---- the requests explored ----
DispatchNames == {"OpenAI", "DeepL", "unknown-x"}

KeyedConfig ==
    [k \in {"openai", "deepl"} |-> [f \in {"apiKey"} |-> JStr("sk-1")]]
DispatchConfigs == {None, Some(KeyedConfig)}

RECURSIVE SeqsUpTo(_, _)
SeqsUpTo(S, n) ==
    IF n = 0 THEN {<<>>}
    ELSE LET shorter == SeqsUpTo(S, n - 1)
         IN  shorter \cup {Append(q, x) : q \in {r \in shorter : Len(r) = n - 1}, x \in S}

Requests ==
    {[services |-> sv, config |-> c] : sv \in SeqsUpTo(DispatchNames, MaxServices),
                                      c \in DispatchConfigs}

RequestIds == {"req-1"}

\* ---- tasks ----
\* st: "spawned" (not yet polled), "calling" (inside <adapter>::translate),
\*     "streaming" (inside <adapter>::translate_stream), "finished" (ran to the end),
\*     "panicked" (the JoinHandle yields Err(JoinError))
SpawnedTask(service_name) ==
    [service_name |-> service_name, st |-> "spawned", invoked |-> FALSE, adapter |-> "",
     config |-> None, display |-> "", full_text |-> <<>>, ndeltas |-> 0, output |-> None,
     ended_at |-> 0]   \* ended_at, kept for translate: the task was the ended_at-th to end

Ended(t) == t.st \in {"finished", "panicked"}

\* number of tasks of the call that have ended
EndedCount == Cardinality({j \in 1..Len(tasks) : Ended(tasks[j])})

\* no streaming adapter call is being followed
IdleParser == [adapter |-> "none"]

\* no non-streaming adapter call is being followed
IdleCall == [fn |-> "none"]

Init ==
    /\ pc = "idle"
    /\ mode = "none"
    /\ request = [services |-> <<>>, config |-> None]
    /\ request_id = ""
    /\ tasks = <<>>
    /\ joined = 0
    /\ final_results = <<>>
    /\ ret = None
    /\ events = <<>>
    /\ sink = [ok |-> TRUE, lost |-> {}]
    /\ is_processing = FALSE
    /\ handlers = <<>>
    /\ parser = IdleParser
    /\ call = IdleCall

\* the spawn loop of either entry point: one task per effective service name
Spawn(req, m, id) ==
    /\ pc = "idle"
    /\ pc' = "fanin"
    /\ mode' = m
    /\ request' = req
    /\ request_id' = id
    /\ tasks' = [i \in 1..Len(EffectiveServices(req)) |-> SpawnedTask(EffectiveServices(req)[i])]
    /\ UNCHANGED <<joined, final_results, ret, events, sink, parser, call,
                   is_processing, handlers>>

\* translate(request) up to the end of the spawn loop
translate(req) == Spawn(req, "aggregate", "")

\* translate_stream(app, request, request_id) up to the end of the spawn loop
translate_stream(req, id) == Spawn(req, "stream", id)

\* ---- aggregate mode: the body of one spawned task ----
\* from the start of the task to its early return or to the adapter call
AggregateTask(i) ==
    /\ mode = "aggregate"
    /\ i \in 1..Len(tasks)
    /\ tasks[i].st = "spawned"
    /\ LET r == AggregateResolve(tasks[i].service_name, request.config)
       IN  IF r.invoke
           THEN /\ tasks' = [tasks EXCEPT ![i].st = "calling", ![i].invoked = TRUE,
                                          ![i].adapter = r.adapter, ![i].config = r.config,
                                          ![i].display = r.display]
           ELSE /\ tasks' = [tasks EXCEPT ![i].st = "finished", ![i].output = r.result,
                                          ![i].ended_at = EndedCount + 1]
    /\ UNCHANGED <<pc, mode, request, request_id, joined, final_results,
                   ret, events, sink, parser, call,
                   is_processing, handlers>>

\* the adapter call returns and the task maps its Result to a TranslationResult
AggregateAdapterReturn(i, wire) ==
    /\ mode = "aggregate"
    /\ i \in 1..Len(tasks)
    /\ tasks[i].st = "calling"
    /\ tasks' = [tasks EXCEPT
                   ![i].st = "finished", ![i].ended_at = EndedCount + 1,
                   ![i].output = Some(AggregateOutcome(tasks[i].display,
                                         adapter_translate(tasks[i].adapter, wire)))]
    /\ UNCHANGED <<pc, mode, request, request_id, joined, final_results,
                   ret, events, sink, parser, call,
                   is_processing, handlers>>

\* a task panics or is cancelled inside the adapter call (the only place where it
\* awaits and runs library code); its JoinHandle then yields Err(JoinError)
TaskPanic(i) ==
    /\ i \in 1..Len(tasks)
    /\ tasks[i].st \in {"calling", "streaming"}
    /\ tasks' = [tasks EXCEPT ![i].st = "panicked",
                              ![i].ended_at = IF mode = "aggregate" THEN EndedCount + 1 ELSE 0]
    /\ UNCHANGED <<pc, mode, request, request_id, joined, final_results,
                   ret, events, sink, parser, call,
                   is_processing, handlers>>

\* AggregateJoin as if the results were collected in the order the tasks end
AggregateJoin_CompletionOrder ==
    /\ pc = "fanin"
    /\ mode = "aggregate"
    /\ joined < Len(tasks)
    /\ \E i \in 1..Len(tasks) :
          /\ tasks[i].ended_at = joined + 1
          /\ final_results' = IF tasks[i].st = "finished"
                              THEN Append(final_results, tasks[i].output.val)
                              ELSE final_results
    /\ joined' = joined + 1
    /\ UNCHANGED <<pc, mode, request, request_id, tasks, ret, events, sink, parser, call,
                   is_processing, handlers>>

\* AggregateJoin as if each result were inserted at the front of final_results
AggregateJoin_Prepends ==
    /\ pc = "fanin"
    /\ mode = "aggregate"
    /\ joined < Len(tasks)
    /\ Ended(tasks[joined + 1])
    /\ joined' = joined + 1
    /\ final_results' = IF tasks[joined + 1].st = "finished"
                        THEN <<tasks[joined + 1].output.val>> \o final_results
                        ELSE final_results
    /\ UNCHANGED <<pc, mode, request, request_id, tasks, ret, events, sink, parser, call,
                   is_processing, handlers>>

\* AggregateJoin as if results that carry an error were not collected
AggregateJoin_DropErrors ==
    /\ pc = "fanin"
    /\ mode = "aggregate"
    /\ joined < Len(tasks)
    /\ Ended(tasks[joined + 1])
    /\ joined' = joined + 1
    /\ final_results' = IF /\ tasks[joined + 1].st = "finished"
                           /\ ~tasks[joined + 1].output.val.error.some
                        THEN Append(final_results, tasks[joined + 1].output.val)
                        ELSE final_results
    /\ UNCHANGED <<pc, mode, request, request_id, tasks, ret, events, sink, parser, call,
                   is_processing, handlers>>

\* one iteration of `for handle in handles { match handle.await { .. } }` in translate
AggregateJoin ==
    /\ pc = "fanin"
    /\ mode = "aggregate"
    /\ joined < Len(tasks)
    /\ Ended(tasks[joined + 1])
    /\ joined' = joined + 1
    /\ final_results' = IF tasks[joined + 1].st = "finished"
                        THEN Append(final_results, tasks[joined + 1].output.val)
                        ELSE final_results
    /\ UNCHANGED <<pc, mode, request, request_id, tasks, ret, events, sink, parser, call,
                   is_processing, handlers>>

\* AggregateReturn as if a response whose entries all carry an error were a failure
AggregateReturn_FailOnAllErrors ==
    /\ pc = "fanin"
    /\ mode = "aggregate"
    /\ joined = Len(tasks)
    /\ pc' = "returned"
    /\ ret' = Some(IF \A k \in 1..Len(final_results) : final_results[k].error.some
                   THEN Err("No translation services returned results")
                   ELSE Ok([results |-> final_results]))
    /\ UNCHANGED <<mode, request, request_id, tasks, joined, final_results,
                   events, sink, parser, call,
                   is_processing, handlers>>

\* the end of translate: the is_empty check and the return value
AggregateReturn ==
    /\ pc = "fanin"
    /\ mode = "aggregate"
    /\ joined = Len(tasks)
    /\ pc' = "returned"
    /\ ret' = Some(IF final_results = <<>>
                   THEN Err("No translation services returned results")
                   ELSE Ok([results |-> final_results]))
    /\ UNCHANGED <<mode, request, request_id, tasks, joined, final_results,
                   events, sink, parser, call,
                   is_processing, handlers>>

\* ---- streaming mode: the body of one spawned task ----
\* emit as if a payload whose delivery failed were handed to the sink a second time
emit_Retries(payload) ==
    /\ events' = IF sink.ok THEN Append(events, payload)
                 ELSE Append(Append(events, payload), payload)
    /\ sink' = IF sink.ok THEN sink ELSE [sink EXCEPT !.lost = @ \cup {Len(events) + 1}]

\* the emit closure: the payload is handed to app_handle.emit and the result dropped
emit(payload) ==
    /\ events' = Append(events, payload)
    /\ sink' = IF sink.ok THEN sink ELSE [sink EXCEPT !.lost = @ \cup {Len(events) + 1}]

\* emit_error as if the error payload were never handed to emit
emit_error_Dropped(i, error) == events' = events /\ sink' = sink

\* the emit_error closure of task i
emit_error(i, error) ==
    emit(StreamPayload(request_id, tasks[i].service_name, None, None, Some(error),
                       TRUE, FALSE, i))

\* the terminal payload of a task whose call succeeded
emit_text(i, service, text) ==
    emit(StreamPayload(request_id, service, None, Some(text), None, TRUE, FALSE, i))

\* from the start of the task to its early return or to the adapter call
StreamTask(i) ==
    /\ mode = "stream"
    /\ i \in 1..Len(tasks)
    /\ tasks[i].st = "spawned"
    /\ LET r == StreamResolve(tasks[i].service_name, request.config)
       IN  IF r.kind = "error"
           THEN /\ emit_error(i, r.error)
                /\ tasks' = [tasks EXCEPT ![i].st = "finished"]
           ELSE /\ tasks' = [tasks EXCEPT
                               ![i].st = IF r.kind = "stream" THEN "streaming" ELSE "calling",
                               ![i].invoked = TRUE, ![i].adapter = r.adapter,
                               ![i].config = r.config]
                /\ UNCHANGED <<events, sink>>
    /\ UNCHANGED <<pc, mode, request, request_id, joined, final_results, ret, parser, call,
                   is_processing, handlers>>

\* number of delta payloads emitted so far
DeltaCount == Cardinality({k \in 1..Len(events) : events[k].delta.some})

\* StreamDelta as if the fragment were forwarded but not appended to full_text
StreamDelta_NoPush(i) ==
    /\ mode = "stream"
    /\ i \in 1..Len(tasks)
    /\ tasks[i].st = "streaming"
    /\ DeltaCount < MaxDeltas
    /\ emit(StreamPayload(request_id, tasks[i].service_name,
                          Some(Fragment(tasks[i].ndeltas + 1)), None, None, FALSE, FALSE, i))
    /\ tasks' = [tasks EXCEPT ![i].ndeltas = @ + 1]
    /\ UNCHANGED <<pc, mode, request, request_id, joined, final_results, ret, parser, call,
                   is_processing, handlers>>

\* <adapter>::translate_stream reads a data line carrying a fragment: on_delta(delta),
\* which emits one delta payload, then full_text.push_str(delta)
StreamDelta(i) ==
    /\ mode = "stream"
    /\ i \in 1..Len(tasks)
    /\ tasks[i].st = "streaming"
    /\ DeltaCount < MaxDeltas
    /\ LET delta == Fragment(tasks[i].ndeltas + 1)
       IN  /\ emit(StreamPayload(request_id, tasks[i].service_name, Some(delta), None, None,
                                 FALSE, FALSE, i))
           /\ tasks' = [tasks EXCEPT ![i].full_text = @ \o delta, ![i].ndeltas = @ + 1]
    /\ UNCHANGED <<pc, mode, request, request_id, joined, final_results, ret, parser, call,
                   is_processing, handlers>>

\* <adapter>::translate_stream returns Ok(full_text): [DONE] or the end of the stream
StreamAdapterOk(i) ==
    /\ mode = "stream"
    /\ i \in 1..Len(tasks)
    /\ tasks[i].st = "streaming"
    /\ emit_text(i, tasks[i].service_name, tasks[i].full_text)
    /\ tasks' = [tasks EXCEPT ![i].st = "finished"]
    /\ UNCHANGED <<pc, mode, request, request_id, joined, final_results, ret, parser, call,
                   is_processing, handlers>>

\* StreamAdapterErr as if the error were emitted without leaving the read loop
StreamAdapterErr_KeepsReading(i) ==
    /\ mode = "stream"
    /\ i \in 1..Len(tasks)
    /\ tasks[i].st = "streaming"
    /\ ~\E k \in 1..Len(events) : events[k].task = i /\ events[k].done
    /\ emit_error(i, AdapterError(tasks[i].adapter))
    /\ UNCHANGED <<pc, mode, request, request_id, tasks, joined, final_results, ret, parser, call,
                   is_processing, handlers>>

\* <adapter>::translate_stream returns Err(e): before the stream or in the middle of it
StreamAdapterErr(i) ==
    /\ mode = "stream"
    /\ i \in 1..Len(tasks)
    /\ tasks[i].st = "streaming"
    /\ emit_error(i, AdapterError(tasks[i].adapter))
    /\ tasks' = [tasks EXCEPT ![i].st = "finished"]
    /\ UNCHANGED <<pc, mode, request, request_id, joined, final_results, ret, parser, call,
                   is_processing, handlers>>

\* a provider without translate_stream: <adapter>::translate returns
StreamCallReturn(i, wire) ==
    /\ mode = "stream"
    /\ i \in 1..Len(tasks)
    /\ tasks[i].st = "calling"
    /\ LET res == adapter_translate(tasks[i].adapter, wire)
       IN  IF res.ok THEN emit_text(i, res.val.name, res.val.text)
           ELSE emit_error(i, res.err)
    /\ tasks' = [tasks EXCEPT ![i].st = "finished"]
    /\ UNCHANGED <<pc, mode, request, request_id, joined, final_results, ret, parser, call,
                   is_processing, handlers>>

\* StreamJoin as if a JoinError ended the fan-in (handle.await?)
StreamJoin_PropagatesJoinError ==
    /\ pc = "fanin"
    /\ mode = "stream"
    /\ joined < Len(tasks)
    /\ Ended(tasks[joined + 1])
    /\ IF tasks[joined + 1].st = "panicked"
       THEN /\ pc' = "returned"
            /\ ret' = Some(Err("task failed"))
            /\ UNCHANGED joined
       ELSE /\ joined' = joined + 1
            /\ UNCHANGED <<pc, ret>>
    /\ UNCHANGED <<mode, request, request_id, tasks, final_results, events, sink, parser, call,
                   is_processing, handlers>>

\* one iteration of `for handle in handles { let _ = handle.await; }` in translate_stream
StreamJoin ==
    /\ pc = "fanin"
    /\ mode = "stream"
    /\ joined < Len(tasks)
    /\ Ended(tasks[joined + 1])
    /\ joined' = joined + 1
    /\ UNCHANGED <<pc, mode, request, request_id, tasks, final_results,
                   ret, events, sink, parser, call,
                   is_processing, handlers>>

\* StreamReturn as if the sentinel did not carry the caller's request_id
StreamReturn_BlankRequestId ==
    /\ pc = "fanin"
    /\ mode = "stream"
    /\ joined = Len(tasks)
    /\ emit(StreamPayload("", "", None, None, None, TRUE, TRUE, 0))
    /\ pc' = "returned"
    /\ ret' = Some(Ok("()"))
    /\ UNCHANGED <<mode, request, request_id, tasks, joined, final_results, parser, call,
                   is_processing, handlers>>

\* StreamReturn as if the sentinel were emitted without awaiting the handles
StreamReturn_NoWait ==
    /\ pc = "fanin"
    /\ mode = "stream"
    /\ emit(StreamPayload(request_id, "", None, None, None, TRUE, TRUE, 0))
    /\ pc' = "returned"
    /\ ret' = Some(Ok("()"))
    /\ UNCHANGED <<mode, request, request_id, tasks, joined, final_results, parser, call,
                   is_processing, handlers>>

\* the end of translate_stream: the sentinel payload and Ok(())
StreamReturn ==
    /\ pc = "fanin"
    /\ mode = "stream"
    /\ joined = Len(tasks)
    /\ emit(StreamPayload(request_id, "", None, None, None, TRUE, TRUE, 0))
    /\ pc' = "returned"
    /\ ret' = Some(Ok("()"))
    /\ UNCHANGED <<mode, request, request_id, tasks, joined, final_results, parser, call,
                   is_processing, handlers>>

Next ==
    \/ \E req \in Requests : translate(req)
    \/ \E req \in Requests, id \in RequestIds : translate_stream(req, id)
    \/ \E i \in 1..Len(tasks) : AggregateTask(i)
    \/ \E i \in 1..Len(tasks), wire \in WireResponses : AggregateAdapterReturn(i, wire)
    \/ \E i \in 1..Len(tasks) : TaskPanic(i)
    \/ AggregateJoin
    \/ AggregateReturn
    \/ \E i \in 1..Len(tasks) : StreamTask(i)
    \/ \E i \in 1..Len(tasks) : StreamDelta(i)
    \/ \E i \in 1..Len(tasks) : StreamAdapterOk(i)
    \/ \E i \in 1..Len(tasks) : StreamAdapterErr(i)
    \/ \E i \in 1..Len(tasks), wire \in WireResponses : StreamCallReturn(i, wire)
    \/ StreamJoin
    \/ StreamReturn

Spec == Init /\ [][Next]_vars

\* ---- a second set of requests: one requested name, every provider, many configs ----
ResolveNames ==
    {"OpenAI", "openai", "Claude", "claude", "Ernie", "wenxin", WenxinYiyan,
     "Zhipu", "ZHIPU", "zhipu", "Groq", "groq", "Gemini", "gemini",
     "DeepL", "deepl", "Google", "Alibaba", "GoogleFree", "googlefree",
     "Google Native", "google native", "unknown-x", ""}

\* a provider's config object (a JSON object): each of the four keys the dispatcher
\* reads is absent (None) or present, next to a key the dispatcher never reads
ConfigObject(apiKey, secretKey, apiUrl, model) ==
    LET c == [apiKey |-> apiKey, secretKey |-> secretKey, apiUrl |-> apiUrl, model |-> model]
    IN  [k \in {"timeout"} \cup {x \in DOMAIN c : c[x].some} |->
            IF k = "timeout" THEN JOther ELSE c[k].val]

ConfigObjects ==
    {ConfigObject(a, s, u, m) :
        a \in {None, Some(JStr("")), Some(JStr("sk-1")), Some(JOther)},
        s \in {None, Some(JStr("")), Some(JStr("s-1"))},
        u \in {None, Some(JStr("https://proxy.example/v1"))},
        m \in {None, Some(JStr("my-model"))}}

\* the keys of request.config: the lowercase provider names, with or without the
\* other spellings the dispatcher accepts for ernie and googlefree
CanonicalKeys ==
    {"openai", "claude", "ernie", "zhipu", "groq", "gemini", "deepl", "google", "alibaba",
     "googlefree"}
AliasKeys == {"wenxin", WenxinYiyan, "google native"}

ResolveConfigs ==
    {None} \cup {Some([k \in K |-> o]) : K \in {CanonicalKeys, CanonicalKeys \cup AliasKeys},
                                         o \in ConfigObjects}

ResolveRequests ==
    {[services |-> <<n>>, config |-> c] : n \in ResolveNames, c \in ResolveConfigs}

NextResolve ==
    \/ \E req \in ResolveRequests : translate(req)
    \/ \E req \in ResolveRequests, id \in RequestIds : translate_stream(req, id)
    \/ \E i \in 1..Len(tasks) : AggregateTask(i)
    \/ \E i \in 1..Len(tasks), wire \in WireResponses : AggregateAdapterReturn(i, wire)
    \/ \E i \in 1..Len(tasks) : TaskPanic(i)
    \/ AggregateJoin
    \/ AggregateReturn
    \/ \E i \in 1..Len(tasks) : StreamTask(i)
    \/ \E i \in 1..Len(tasks) : StreamDelta(i)
    \/ \E i \in 1..Len(tasks) : StreamAdapterOk(i)
    \/ \E i \in 1..Len(tasks) : StreamAdapterErr(i)
    \/ \E i \in 1..Len(tasks), wire \in WireResponses : StreamCallReturn(i, wire)
    \/ StreamJoin
    \/ StreamReturn

SpecResolve == Init /\ [][NextResolve]_vars

\* ---- a third set of runs: translate_stream while the event sink fails and recovers ----
\* the sink starts or stops accepting events (the window is closed, reopened, ..):
\* app_handle.emit returns Err while it is down
SinkFlip ==
    /\ pc = "fanin"
    /\ mode = "stream"
    /\ sink' = [sink EXCEPT !.ok = ~@]
    /\ UNCHANGED <<pc, mode, request, request_id, tasks, joined, final_results, ret, events,
                   parser, call,
                   is_processing, handlers>>

\* requests with one streaming provider, alone or next to one other task
SinkRequests ==
    {[services |-> sv, config |-> Some(KeyedConfig)] :
        sv \in {<<"OpenAI">>, <<"OpenAI", "DeepL">>, <<"unknown-x", "OpenAI">>}}

SinkRequestIds == {"req-1", "req-2"}

NextSink ==
    \/ \E req \in SinkRequests, id \in SinkRequestIds : translate_stream(req, id)
    \/ \E i \in 1..Len(tasks) : TaskPanic(i)
    \/ \E i \in 1..Len(tasks) : StreamTask(i)
    \/ \E i \in 1..Len(tasks) : StreamDelta(i)
    \/ \E i \in 1..Len(tasks) : StreamAdapterOk(i)
    \/ \E i \in 1..Len(tasks) : StreamAdapterErr(i)
    \/ \E i \in 1..Len(tasks), wire \in WireResponses : StreamCallReturn(i, wire)
    \/ StreamJoin
    \/ StreamReturn
    \/ SinkFlip

SpecSink == Init /\ [][NextSink]_vars

\* ---- the streaming adapters reading a response stream ----
\* The bytes of a response stream, cut into pieces: text is what the piece says and nl
\* tells whether a newline follows it.  The texts stand for: a data line whose JSON
\* carries the fragment "Bon"; one whose JSON carries the empty fragment; one whose
\* payload is not JSON; the end-of-stream line; and the two halves of a data line whose
\* JSON carries the fragment "jour", as they arrive when the line is split in two.
TBon == "data: {fragment: Bon}"
TEmpty == "data: {fragment: }"
TBad == "data: {oops"
TDone == "data: [DONE]"
TLeft == "data: {fragment: jo"
TRight == "ur}"

Piece(text, nl) == [text |-> text, nl |-> nl]

Pieces ==
    {Piece(TBon, TRUE), Piece(TEmpty, TRUE), Piece(TBad, TRUE), Piece(TDone, TRUE),
     Piece(TLeft, FALSE), Piece(TRight, TRUE), Piece(TBon, FALSE)}

\* what the adapters see in one line (the texts of its pieces, joined): line.trim(),
\* starts_with("data:"), trim_start_matches("data:").trim(), == "[DONE]", from_str and
\* the lookup of the fragment in the parsed document
ParseLine(line) ==
    CASE line = <<>> -> [kind |-> "skip"]
      [] line # <<>> /\ Head(line) = TRight -> [kind |-> "skip"]
      [] line = <<TDone>> -> [kind |-> "done"]
      [] line = <<TBon>> -> [kind |-> "json", fragment |-> <<"B", "o", "n">>]
      [] line = <<TEmpty>> -> [kind |-> "json", fragment |-> <<>>]
      [] line = <<TLeft, TRight>> -> [kind |-> "json", fragment |-> <<"j", "o", "u", "r">>]
      [] OTHER -> [kind |-> "bad"]

\* str::lines on one chunk: the texts between newlines, a last line without a newline
\* included
RECURSIVE lines(_, _)
lines(chunk, current) ==
    IF chunk = <<>> THEN (IF current = <<>> THEN <<>> ELSE <<current>>)
    ELSE IF Head(chunk).nl
         THEN <<Append(current, Head(chunk).text)>> \o lines(Tail(chunk), <<>>)
         ELSE lines(Tail(chunk), Append(current, Head(chunk).text))

\* buffer.find('\n'): the position of the first piece that a newline follows, 0 if none
RECURSIVE find_newline(_)
find_newline(buffer) ==
    IF buffer = <<>> THEN 0
    ELSE IF Head(buffer).nl THEN 1
         ELSE LET rest == find_newline(Tail(buffer))
              IN  IF rest = 0 THEN 0 ELSE rest + 1

\* the state of a call at the start of the read loop
StartParser(adapter, stream) ==
    [adapter |-> adapter, stream |-> stream, buffer |-> <<>>, pending |-> <<>>,
     full_text |-> <<>>, delivered |-> <<>>, result |-> None,
     done_read |-> FALSE, bad_read |-> FALSE,   \* these two only record what was read
     content |-> Concat(stream)]                \* the whole response body, kept for reference

\* on_delta(delta); full_text.push_str(delta)
Deliver(p, delta) ==
    [p EXCEPT !.delivered = Append(@, delta), !.full_text = @ \o delta]

\* openai::translate_stream, the body of `while let Some(pos) = buffer.find('\n')`
openai_line(p, line) ==
    LET l == ParseLine(line)
    IN  CASE l.kind = "skip" -> p
          [] l.kind = "done" -> [p EXCEPT !.result = Some(Ok(p.full_text)), !.done_read = TRUE]
          [] l.kind = "bad" -> [p EXCEPT !.result = Some(Err("Failed to parse stream JSON: ")),
                                         !.bad_read = TRUE]
          [] l.kind = "json" -> IF l.fragment # <<>> THEN Deliver(p, l.fragment) ELSE p

\* claude_line as if the read loop went on after the end-of-stream line
claude_line_ReadsPastDone(p, line) ==
    LET l == ParseLine(line)
    IN  CASE l.kind = "skip" -> p
          [] l.kind = "done" -> [p EXCEPT !.done_read = TRUE]
          [] l.kind = "bad" -> [p EXCEPT !.bad_read = TRUE]
          [] l.kind = "json" -> Deliver(p, l.fragment)

\* claude::translate_stream, the body of `for line in chunk_str.lines()`
claude_line(p, line) ==
    LET l == ParseLine(line)
    IN  CASE l.kind = "skip" -> p
          [] l.kind = "done" -> [p EXCEPT !.result = Some(Ok(p.full_text)), !.done_read = TRUE]
          [] l.kind = "bad" -> [p EXCEPT !.bad_read = TRUE]
          [] l.kind = "json" -> Deliver(p, l.fragment)

\* ernie::translate_stream, the body of `for line in chunk_str.lines()`
ernie_line(p, line) ==
    LET l == ParseLine(line)
    IN  CASE l.kind = "skip" -> p
          [] l.kind = "done" -> [p EXCEPT !.result = Some(Ok(p.full_text)), !.done_read = TRUE]
          [] l.kind = "bad" -> [p EXCEPT !.bad_read = TRUE]
          [] l.kind = "json" -> Deliver(p, l.fragment)

\* the read loop of <adapter>::translate_stream run from p to its return, on a stream
\* whose transport does not fail: `while let Some(chunk) = stream.next().await { .. }`
\* followed by Ok(full_text)
RECURSIVE run_to_end(_)
run_to_end(p) ==
    IF p.result.some THEN p
    ELSE IF p.adapter = "openai"
    THEN LET pos == find_newline(p.buffer)
         IN  IF pos # 0
             THEN run_to_end(openai_line(
                      [p EXCEPT !.buffer = SubSeq(p.buffer, pos + 1, Len(p.buffer))],
                      [k \in 1..pos |-> p.buffer[k].text]))
             ELSE IF p.stream # <<>>
             THEN run_to_end([p EXCEPT !.stream = Tail(@), !.buffer = @ \o Head(p.stream)])
             ELSE [p EXCEPT !.result = Some(Ok(p.full_text))]
    ELSE IF p.pending # <<>>
    THEN LET q == [p EXCEPT !.pending = Tail(@)]
         IN  run_to_end(IF p.adapter = "claude" THEN claude_line(q, Head(p.pending))
                        ELSE ernie_line(q, Head(p.pending)))
    ELSE IF p.stream # <<>>
    THEN run_to_end([p EXCEPT !.stream = Tail(@), !.pending = lines(Head(p.stream), <<>>)])
    ELSE [p EXCEPT !.result = Some(Ok(p.full_text))]

\* the response body handed over by the transport in a single chunk
OneChunk(content) == IF content = <<>> THEN <<>> ELSE <<content>>

\* the call is inside its read loop, between two lines
Reading == parser.adapter # "none" /\ ~parser.result.some

\* a complete line waits to be processed before the next chunk is awaited
LineWaiting ==
    IF parser.adapter = "openai" THEN find_newline(parser.buffer) # 0
    ELSE parser.pending # <<>>

\* stream.next().await yields Some(Ok(chunk)): the chunk is pushed to the buffer
\* (openai) or split into lines (claude, ernie)
ParserReadChunk ==
    /\ Reading
    /\ ~LineWaiting
    /\ parser.stream # <<>>
    /\ parser' = IF parser.adapter = "openai"
                 THEN [parser EXCEPT !.stream = Tail(@),
                                     !.buffer = @ \o Head(parser.stream)]
                 ELSE [parser EXCEPT !.stream = Tail(@),
                                     !.pending = lines(Head(parser.stream), <<>>)]
    /\ UNCHANGED <<pc, mode, request, request_id, tasks, joined, final_results, ret, events,
                   sink, call,
                   is_processing, handlers>>

\* one line is taken and processed
ParserLine ==
    /\ Reading
    /\ LineWaiting
    /\ IF parser.adapter = "openai"
       THEN LET pos == find_newline(parser.buffer)
                line == [k \in 1..pos |-> parser.buffer[k].text]
                rest == SubSeq(parser.buffer, pos + 1, Len(parser.buffer))
            IN  parser' = openai_line([parser EXCEPT !.buffer = rest], line)
       ELSE LET p == [parser EXCEPT !.pending = Tail(@)]
                line == Head(parser.pending)
            IN  parser' = IF parser.adapter = "claude" THEN claude_line(p, line)
                          ELSE ernie_line(p, line)
    /\ UNCHANGED <<pc, mode, request, request_id, tasks, joined, final_results, ret, events,
                   sink, call,
                   is_processing, handlers>>

\* stream.next().await yields None: Ok(full_text); what is left in the buffer is dropped
ParserEndOfStream ==
    /\ Reading
    /\ ~LineWaiting
    /\ parser.stream = <<>>
    /\ parser' = [parser EXCEPT !.result = Some(Ok(parser.full_text))]
    /\ UNCHANGED <<pc, mode, request, request_id, tasks, joined, final_results, ret, events,
                   sink, call,
                   is_processing, handlers>>

\* stream.next().await yields Some(Err(e)): the transport failed in the middle
ParserStreamError ==
    /\ Reading
    /\ ~LineWaiting
    /\ parser.stream # <<>>
    /\ parser' = [parser EXCEPT !.result = Some(Err("Stream error: "))]
    /\ UNCHANGED <<pc, mode, request, request_id, tasks, joined, final_results, ret, events,
                   sink, call,
                   is_processing, handlers>>

\* the response streams explored: every way to cut at most MaxPieces pieces into chunks
RECURSIVE PieceSeqs(_)
PieceSeqs(n) ==
    IF n = 0 THEN {<<>>} ELSE {<<x>> \o q : x \in Pieces, q \in PieceSeqs(n - 1)}

RECURSIVE Streams(_)
Streams(n) ==
    IF n = 0 THEN {<<>>}
    ELSE {<<>>} \cup UNION {{<<c>> \o w : c \in PieceSeqs(k), w \in Streams(n - k)} : k \in 1..n}

InitParse ==
    /\ pc = "idle"
    /\ mode = "none"
    /\ request = [services |-> <<>>, config |-> None]
    /\ request_id = ""
    /\ tasks = <<>>
    /\ joined = 0
    /\ final_results = <<>>
    /\ ret = None
    /\ events = <<>>
    /\ sink = [ok |-> TRUE, lost |-> {}]
    /\ is_processing = FALSE
    /\ handlers = <<>>
    /\ parser \in {StartParser(a, w) : a \in {"openai", "claude", "ernie"},
                                       w \in Streams(MaxPieces)}
    /\ call = IdleCall

NextParse ==
    \/ ParserReadChunk
    \/ ParserLine
    \/ ParserEndOfStream
    \/ ParserStreamError

SpecParse == InitParse /\ [][NextParse]_vars

\* ---- the non-streaming adapters: deepl::translate and google_free::translate ----
\* to_uppercase as if the code were matched as the caller spelled it
to_uppercase_Identity(s) == s

\* str::to_uppercase on the language codes a request may carry
to_uppercase(s) ==
    CASE s = "zh" -> "ZH"
      [] s = "zh-hans" -> "ZH-HANS"
      [] s = "ZH-Hans" -> "ZH-HANS"
      [] s = "zh-TW" -> "ZH-TW"
      [] s = "en" -> "EN"
      [] s = "En" -> "EN"
      [] s = "en-gb" -> "EN-GB"
      [] s = "ja" -> "JA"
      [] s = "ko" -> "KO"
      [] s = "fr" -> "FR"
      [] s = "de" -> "DE"
      [] s = "es" -> "ES"
      [] s = "ru" -> "RU"
      [] s = "pt" -> "PT"
      [] s = "auto" -> "AUTO"
      [] OTHER -> s

\* the match on target_lang.to_uppercase() in deepl::translate
deepl_target(target_lang) ==
    LET upper == to_uppercase(target_lang)
    IN  CASE upper \in {"ZH", "ZH-HANS"} -> "ZH"
          [] upper = "EN" -> "EN-US"
          [] upper = "JA" -> "JA"
          [] upper = "KO" -> "KO"
          [] upper = "FR" -> "FR"
          [] upper = "DE" -> "DE"
          [] upper = "ES" -> "ES"
          [] upper = "RU" -> "RU"
          [] OTHER -> "EN-US"

\* a line NAME=value of the .env file
EnvLine(name, value) == [name |-> name, value |-> value]

\* s.lines().find(|l| l.starts_with("DEEPL_API_KEY=")).map(|l| l.trim_start_matches(..))
RECURSIVE find_env_line(_)
find_env_line(ls) ==
    IF ls = <<>> THEN None
    ELSE IF Head(ls).name = "DEEPL_API_KEY" THEN Some(Head(ls).value)
         ELSE find_env_line(Tail(ls))

\* Option::or_else
or_else(opt, other) == IF opt.some THEN opt ELSE other

\* deepl_api_key as if the environment variable were looked up before the config
deepl_api_key_EnvFirst(config, env, dotenv) ==
    LET from_config ==
            IF config.some /\ get(config.val, "apiKey").some
            THEN as_str(get(config.val, "apiKey").val) ELSE None
        from_file == IF dotenv.some THEN find_env_line(dotenv.val) ELSE None
    IN  or_else(or_else(env, from_config), from_file)

\* the api_key of deepl::translate: the config's apiKey if it is a string, or else
\* env::var("DEEPL_API_KEY").ok(), or else the DEEPL_API_KEY line of .env
deepl_api_key(config, env, dotenv) ==
    LET from_config ==
            IF config.some /\ get(config.val, "apiKey").some
            THEN as_str(get(config.val, "apiKey").val) ELSE None
        from_file == IF dotenv.some THEN find_env_line(dotenv.val) ELSE None
    IN  or_else(or_else(from_config, env), from_file)

\* deepl::translate: what it sent, if anything, and what it returned
deepl_translate(input) ==
    LET api_key == deepl_api_key(input.config, input.env, input.dotenv)
    IN  IF ~api_key.some
        THEN [sent |-> FALSE, api_key |-> None, target |-> "",
              result |-> Err("DEEPL_API_KEY not found")]
        ELSE [sent |-> TRUE, api_key |-> api_key, target |-> deepl_target(input.target_lang),
              result |-> adapter_translate("deepl", input.wire)]

\* serde_json::Value that is an array
JArr(items) == [str |-> FALSE, arr |-> TRUE, items |-> items]
as_array(v) == IF "arr" \in DOMAIN v THEN Some(v.items) ELSE None

\* the `for sentence in sentences` loop of google_free::translate
RECURSIVE translated_text(_)
translated_text(sentences) ==
    IF sentences = <<>> THEN <<>>
    ELSE LET sentence == as_array(Head(sentences))
             first == IF sentence.some /\ sentence.val # <<>>
                      THEN as_str(sentence.val[1]) ELSE None
         IN  (IF first.some THEN first.val ELSE <<>>) \o translated_text(Tail(sentences))

\* google_free_translate as if an empty concatenation were returned as a success
google_free_translate_AllowsEmpty(input) ==
    IF ~input.ok THEN Err("Google Free API returned error: ")
    ELSE LET top == as_array(input.body)
             sentences == IF top.some /\ top.val # <<>> THEN as_array(top.val[1]) ELSE None
         IN  IF sentences.some
             THEN Ok(TranslationResult("GoogleFree", translated_text(sentences.val), None))
             ELSE Err("Invalid response format from Google Free API")

\* google_free::translate on the response it received
google_free_translate(input) ==
    IF ~input.ok THEN Err("Google Free API returned error: ")
    ELSE LET top == as_array(input.body)
             sentences == IF top.some /\ top.val # <<>> THEN as_array(top.val[1]) ELSE None
         IN  IF sentences.some
             THEN IF translated_text(sentences.val) = <<>>
                  THEN Err("No translation found in response")
                  ELSE Ok(TranslationResult("GoogleFree", translated_text(sentences.val), None))
             ELSE Err("Invalid response format from Google Free API")

\* the adapter call runs from its first line to its return
DeeplCall ==
    /\ call.fn = "deepl"
    /\ ~call.output.some
    /\ call' = [call EXCEPT !.output = Some(deepl_translate(call.input))]
    /\ UNCHANGED <<pc, mode, request, request_id, tasks, joined, final_results, ret, events,
                   sink, parser,
                   is_processing, handlers>>

GoogleFreeCall ==
    /\ call.fn = "google_free"
    /\ ~call.output.some
    /\ call' = [call EXCEPT !.output = Some(google_free_translate(call.input))]
    /\ UNCHANGED <<pc, mode, request, request_id, tasks, joined, final_results, ret, events,
                   sink, parser,
                   is_processing, handlers>>

\* the inputs explored
LangCodes ==
    {"zh", "ZH", "zh-hans", "ZH-Hans", "ZH-HANS", "zh-TW", "en", "EN", "En", "en-gb", "EN-US",
     "ja", "JA", "ko", "KO", "fr", "FR", "de", "DE", "es", "ES", "ru", "RU", "pt", "auto", ""}

DeeplConfigs ==
    {None, Some(EmptyObj), Some([k \in {"apiKey"} |-> JStr("k-config")]),
     Some([k \in {"apiKey"} |-> JStr("")]), Some([k \in {"apiKey"} |-> JOther])}

EnvValues == {None, Some("k-env"), Some("")}

EnvLines ==
    {EnvLine("DEEPL_API_KEY", "k-file"), EnvLine("DEEPL_API_KEY", "k-file-2"),
     EnvLine("OPENAI_API_KEY", "sk-1")}

DotenvFiles == {None} \cup {Some(ls) : ls \in SeqsUpTo(EnvLines, MaxEnvLines)}

DeeplInputs ==
    [config : DeeplConfigs, env : EnvValues, dotenv : DotenvFiles, target_lang : LangCodes,
     wire : WireResponses]

Sentences ==
    {JArr(<<JStr(<<"B", "o", "n">>), JStr(<<"H", "i">>)>>), JArr(<<JStr(<<"j", "o", "u", "r">>)>>),
     JArr(<<JStr(<<>>), JStr(<<"H", "i">>)>>), JArr(<<>>), JArr(<<JOther, JStr(<<"H", "i">>)>>),
     JOther}

GoogleFreeInputs ==
    {[ok |-> FALSE], [ok |-> TRUE, body |-> JOther], [ok |-> TRUE, body |-> JArr(<<>>)],
     [ok |-> TRUE, body |-> JArr(<<JOther>>)]}
    \cup {[ok |-> TRUE, body |-> JArr(<<JArr(ss), JOther>>)] :
             ss \in SeqsUpTo(Sentences, MaxSentences)}

InitAdapters ==
    /\ pc = "idle"
    /\ mode = "none"
    /\ request = [services |-> <<>>, config |-> None]
    /\ request_id = ""
    /\ tasks = <<>>
    /\ joined = 0
    /\ final_results = <<>>
    /\ ret = None
    /\ events = <<>>
    /\ sink = [ok |-> TRUE, lost |-> {}]
    /\ is_processing = FALSE
    /\ handlers = <<>>
    /\ parser = IdleParser
    /\ call \in {[fn |-> "deepl", input |-> x, output |-> None] : x \in DeeplInputs}
           \cup {[fn |-> "google_free", input |-> x, output |-> None] : x \in GoogleFreeInputs}

NextAdapters ==
    \/ DeeplCall
    \/ GoogleFreeCall

SpecAdapters == InitAdapters /\ [][NextAdapters]_vars

\* ---- hotkey handling (hotkey/mod.rs) ----
\* `for attempt in 1..=3` in perform_selection_translation
ClipboardAttempts == 3

\* HotkeyState.mapping as register_hotkeys left it: shortcut -> action name
mapping ==
    [s \in {"alt+i", "alt+s", "alt+o", "alt+p", "alt+x"} |->
        CASE s = "alt+i" -> "input_translation"
          [] s = "alt+s" -> "select_translation"
          [] s = "alt+o" -> "screenshot_ocr"
          [] s = "alt+p" -> "silent_ocr"
          [] s = "alt+x" -> "toggle_window"]

\* the shortcuts the global-shortcut plugin reports; "alt+z" has no entry in mapping
Shortcuts == DOMAIN mapping \cup {"alt+z"}

\* what the clipboard read of one attempt yields: Err (None) or Ok(text)
ClipboardReads == {None, Some(<<>>), Some(<<" ">>), Some(<<" ", "h", "i">>)}

\* the lookup block of handle_shortcut (the generated formats are tried in turn; the
\* result is the action the shortcut is mapped to, if any)
action_name(shortcut) ==
    IF shortcut \in DOMAIN mapping THEN Some(mapping[shortcut]) ELSE None

\* one handle_shortcut invocation. at: "lookup" (the flag was read as false), "ignored"
\* (returned because the flag was true), "dispatch" (the flag is set, before the match),
\* "copy" and "clipboard" (perform_selection_translation is running, spawned by the
\* invocation), "done" (the path of the invocation has ended).
\* started: the invocation set is_processing to true; cleared: its own path reset it.
Handler(shortcut, at) ==
    [shortcut |-> shortcut, at |-> at, action |-> "", attempt |-> 0,
     started |-> FALSE, cleared |-> FALSE]

\* handle_shortcut has returned to the plugin (the plugin calls it on one thread)
Returned(h) == h.at \in {"ignored", "done", "copy", "clipboard"}

\* the action the invocation started is in progress
Running(h) == h.at \in {"dispatch", "copy", "clipboard"}

\* the path of invocation k ends with `*state.is_processing.lock().unwrap() = false`
ClearAndEnd(k) ==
    /\ is_processing' = FALSE
    /\ handlers' = [handlers EXCEPT ![k].at = "done", ![k].cleared = TRUE]

\* handle_shortcut up to the check of the flag: return if it is set
handle_shortcut(shortcut) ==
    /\ Len(handlers) < MaxShortcuts
    /\ \A k \in 1..Len(handlers) : Returned(handlers[k])
    /\ handlers' = Append(handlers,
                          Handler(shortcut, IF is_processing THEN "ignored" ELSE "lookup"))
    /\ UNCHANGED <<pc, mode, request, request_id, tasks, joined, final_results, ret, events,
                   sink, parser, call, is_processing>>

\* handle_shortcut from the lookup to the write of the flag: true when an action was
\* found, false when none was
SetProcessing(k) ==
    /\ k \in 1..Len(handlers)
    /\ handlers[k].at = "lookup"
    /\ LET a == action_name(handlers[k].shortcut)
       IN  IF a.some
           THEN /\ is_processing' = TRUE
                /\ handlers' = [handlers EXCEPT ![k].at = "dispatch", ![k].action = a.val,
                                                ![k].started = TRUE]
           ELSE /\ is_processing' = FALSE
                /\ handlers' = [handlers EXCEPT ![k].at = "done"]
    /\ UNCHANGED <<pc, mode, request, request_id, tasks, joined, final_results, ret, events,
                   sink, parser, call>>

\* the "input_translation" arm: the window is shown, then the flag is cleared
handle_input_translation(k) ==
    /\ k \in 1..Len(handlers)
    /\ handlers[k].at = "dispatch"
    /\ handlers[k].action = "input_translation"
    /\ ClearAndEnd(k)
    /\ UNCHANGED <<pc, mode, request, request_id, tasks, joined, final_results, ret, events,
                   sink, parser, call>>

\* the "screenshot_ocr" and "silent_ocr" arms: the overlay is told, then the flag is
\* cleared, whether or not the overlay window exists
handle_screenshot_ocr(k, silent) ==
    /\ k \in 1..Len(handlers)
    /\ handlers[k].at = "dispatch"
    /\ handlers[k].action = IF silent THEN "silent_ocr" ELSE "screenshot_ocr"
    /\ ClearAndEnd(k)
    /\ UNCHANGED <<pc, mode, request, request_id, tasks, joined, final_results, ret, events,
                   sink, parser, call>>

\* the `_` arm: an action name the match does not know
UnknownAction(k) ==
    /\ k \in 1..Len(handlers)
    /\ handlers[k].at = "dispatch"
    /\ handlers[k].action \notin {"input_translation", "select_translation", "screenshot_ocr",
                                  "silent_ocr"}
    /\ ClearAndEnd(k)
    /\ UNCHANGED <<pc, mode, request, request_id, tasks, joined, final_results, ret, events,
                   sink, parser, call>>

\* the "select_translation" arm: perform_selection_translation is spawned and
\* handle_shortcut returns with the flag still set
SpawnSelection(k) ==
    /\ k \in 1..Len(handlers)
    /\ handlers[k].at = "dispatch"
    /\ handlers[k].action = "select_translation"
    /\ handlers' = [handlers EXCEPT ![k].at = "copy"]
    /\ UNCHANGED <<pc, mode, request, request_id, tasks, joined, final_results, ret, events,
                   sink, parser, call, is_processing>>

\* perform_selection_translation, step 1: the simulated copy succeeds or fails
SelectionCopy(k, copy_success) ==
    /\ k \in 1..Len(handlers)
    /\ handlers[k].at = "copy"
    /\ IF copy_success
       THEN /\ handlers' = [handlers EXCEPT ![k].at = "clipboard", ![k].attempt = 1]
            /\ UNCHANGED is_processing
       ELSE ClearAndEnd(k)
    /\ UNCHANGED <<pc, mode, request, request_id, tasks, joined, final_results, ret, events,
                   sink, parser, call>>

\* SelectionAttempt as if the exit on an empty clipboard returned without clearing
SelectionAttempt_EmptyKeepsFlag(k, read) ==
    /\ k \in 1..Len(handlers)
    /\ handlers[k].at = "clipboard"
    /\ LET found == read.some /\ Trim(read.val) # <<>>
       IN  IF found THEN ClearAndEnd(k)
           ELSE IF handlers[k].attempt < ClipboardAttempts
           THEN /\ handlers' = [handlers EXCEPT ![k].attempt = @ + 1]
                /\ UNCHANGED is_processing
           ELSE /\ handlers' = [handlers EXCEPT ![k].at = "done"]
                /\ UNCHANGED is_processing
    /\ UNCHANGED <<pc, mode, request, request_id, tasks, joined, final_results, ret, events,
                   sink, parser, call>>

\* perform_selection_translation, step 2 and 3: one attempt to read the clipboard after
\* its sleep. Text found: the event is emitted and the flag cleared; nothing found: the
\* next attempt, or after the last one the flag is cleared and the task returns
SelectionAttempt(k, read) ==
    /\ k \in 1..Len(handlers)
    /\ handlers[k].at = "clipboard"
    /\ LET found == read.some /\ Trim(read.val) # <<>>
       IN  IF found \/ handlers[k].attempt >= ClipboardAttempts
           THEN ClearAndEnd(k)
           ELSE /\ handlers' = [handlers EXCEPT ![k].attempt = @ + 1]
                /\ UNCHANGED is_processing
    /\ UNCHANGED <<pc, mode, request, request_id, tasks, joined, final_results, ret, events,
                   sink, parser, call>>

\* the command the frontend may invoke at any time
clear_hotkey_processing ==
    /\ is_processing' = FALSE
    /\ UNCHANGED <<pc, mode, request, request_id, tasks, joined, final_results, ret, events,
                   sink, parser, call, handlers>>

\* the steps of invocation k and of the task it spawned
HandlerStep(k) ==
    \/ SetProcessing(k)
    \/ handle_input_translation(k)
    \/ \E silent \in BOOLEAN : handle_screenshot_ocr(k, silent)
    \/ UnknownAction(k)
    \/ SpawnSelection(k)
    \/ \E copy_success \in BOOLEAN : SelectionCopy(k, copy_success)
    \/ \E read \in ClipboardReads : SelectionAttempt(k, read)

NextHotkey ==
    \/ \E shortcut \in Shortcuts : handle_shortcut(shortcut)
    \/ \E k \in 1..MaxShortcuts : HandlerStep(k)
    \/ clear_hotkey_processing

SpecHotkey == Init /\ [][NextHotkey]_vars

\* the same program with the scheduling the runtime gives: handle_shortcut runs to its
\* return, and every spawned task and every timer it sleeps on makes progress
SpecHotkeyLive == SpecHotkey /\ \A k \in 1..MaxShortcuts : WF_vars(HandlerStep(k))

\* ---- types ----
TypeOK ==
    /\ pc \in {"idle", "fanin", "returned"}
    /\ mode \in {"none", "aggregate", "stream"}
    /\ joined \in 0..Len(tasks)
    /\ \A i \in 1..Len(tasks) : tasks[i].st \in {"spawned", "calling", "streaming", "finished", "panicked"}

\* ---- claims ----

\* C1: aggregate translate returns a response with exactly one entry per name of the
\* effective provider list (N names, N entries).
C1_ResultCardinality ==
    (mode = "aggregate" /\ pc = "returned") =>
        /\ ret.val.ok
        /\ Len(ret.val.val.results) = Len(EffectiveServices(request))

\* C2: translate_stream emits, for every provider task and whatever its outcome (a
\* panic included), exactly one event with done = true and all_done = false.
C2_OneTerminalPerTask ==
    (mode = "stream" /\ pc = "returned") =>
        \A i \in 1..Len(tasks) :
            Cardinality({k \in 1..Len(events) :
                            events[k].task = i /\ events[k].done /\ ~events[k].all_done}) = 1

\* C3: the all_done sentinel is emitted exactly once per translate_stream call, only
\* after every provider task has ended (panics included), and it is the last event.
C3_SentinelOnceAndLast ==
    LET sentinels == {k \in 1..Len(events) : events[k].all_done}
    IN  /\ Cardinality(sentinels) <= 1
        /\ (mode = "stream" /\ pc = "returned") => Cardinality(sentinels) = 1
        /\ \A k \in sentinels :
              /\ k = Len(events)
              /\ \A i \in 1..Len(tasks) : Ended(tasks[i])

C3_Witness ==
    /\ mode = "stream"
    /\ pc = "returned"
    /\ Len(events) >= 3
    /\ events[Len(events)].all_done
    /\ \E i \in 1..Len(tasks) : tasks[i].st = "panicked"
    /\ \E i \in 1..Len(tasks) : tasks[i].st = "finished"

\* C4: within one provider task every delta event comes before the task's done = true
\* event and the task emits nothing after that event; tasks interleave freely.
C4_TerminalIsLastOfTask ==
    \A k, l \in 1..Len(events) :
        (events[k].task # 0 /\ events[k].task = events[l].task /\ events[k].done /\ k # l)
            => (l < k /\ ~events[l].done)

C4_Witness ==
    \E k, l, m \in 1..Len(events) :
        /\ k < l /\ l < m
        /\ events[k].task = events[m].task
        /\ events[k].delta.some
        /\ events[m].done /\ ~events[m].all_done
        /\ events[l].task # events[k].task
        /\ events[l].task # 0

\* C5: for a streaming-capable provider whose call succeeds, the deltas of its delta
\* events, concatenated in emission order, equal the text of its terminal event.
C5_DeltasConcatToText ==
    \A k \in 1..Len(events) :
        (/\ events[k].done /\ ~events[k].all_done
         /\ events[k].text.some
         /\ tasks[events[k].task].adapter \in {"openai", "claude", "ernie"})
        => LET mine == SelectSeq(events, LAMBDA e : e.task = events[k].task /\ e.delta.some)
           IN  Concat([n \in 1..Len(mine) |-> mine[n].delta.val]) = events[k].text.val

C5_Witness ==
    \E k \in 1..Len(events) :
        /\ events[k].done /\ ~events[k].all_done
        /\ events[k].text = Some(<<"B", "o", "n", "j", "o", "u", "r">>)
        /\ Len(SelectSeq(events, LAMBDA e : e.task = events[k].task /\ e.delta.some)) = 2

\* C6: in every aggregate result and every terminal stream event, error is set exactly
\* when there is no non-empty translated text: never error unset with an empty text.
C6_ErrorIffNoText ==
    /\ \A i \in 1..Len(tasks) :
          tasks[i].output.some =>
              (tasks[i].output.val.error.some <=> tasks[i].output.val.text = <<>>)
    /\ \A k \in 1..Len(events) :
          (events[k].done /\ ~events[k].all_done) =>
              (events[k].error.some <=> ~(events[k].text.some /\ events[k].text.val # <<>>))

\* C7 as stated: when every requested provider fails, aggregate translate returns a
\* top-level error and not a success response whose entries all carry an error.
C7_AllFailedIsTopLevelError ==
    (/\ mode = "aggregate" /\ pc = "returned"
     /\ \A i \in 1..Len(tasks) : tasks[i].output.some => tasks[i].output.val.error.some)
    => ~ret.val.ok

\* C7 as amended: when every requested provider fails, aggregate translate returns a
\* top-level error only if no task produced a result; as soon as one task ran to its
\* end it returns a success response whose entries all carry an error.
C7_AllFailedIsSuccessUnlessEmpty ==
    (/\ mode = "aggregate" /\ pc = "returned"
     /\ \A i \in 1..Len(tasks) : tasks[i].output.some => tasks[i].output.val.error.some)
    => IF \E i \in 1..Len(tasks) : tasks[i].st = "finished"
       THEN /\ ret.val.ok
            /\ ret.val.val.results # <<>>
            /\ \A k \in 1..Len(ret.val.val.results) : ret.val.val.results[k].error.some
       ELSE ~ret.val.ok

C7_Witness ==
    /\ mode = "aggregate" /\ pc = "returned"
    /\ \A i \in 1..Len(tasks) : tasks[i].st = "finished" /\ tasks[i].output.val.error.some
    /\ Len(tasks) >= 2
    /\ ret.val.ok
    /\ Len(ret.val.val.results) = Len(tasks)

\* C8: aggregate translate returns the "no results" error exactly when the collected
\* list is empty, which happens only when every task panicked or was cancelled;
\* otherwise it returns success with every collected entry, error entries included.
C8_NoResultsOnlyWhenEmpty ==
    (mode = "aggregate" /\ pc = "returned") =>
        LET ran == SelectSeq(tasks, LAMBDA t : t.st = "finished")
            collected == [n \in 1..Len(ran) |-> ran[n].output.val]
        IN  /\ ~ret.val.ok <=> final_results = <<>>
            /\ final_results = <<>> <=> \A i \in 1..Len(tasks) : tasks[i].st = "panicked"
            /\ ~ret.val.ok => ret.val.err = "No translation services returned results"
            /\ ret.val.ok => ret.val.val.results = collected

C8_Witness ==
    /\ mode = "aggregate" /\ pc = "returned"
    /\ Len(tasks) >= 2
    /\ \A i \in 1..Len(tasks) : tasks[i].st = "panicked"
    /\ ret = Some(Err("No translation services returned results"))

\* C9: a provider task that panics or is cancelled is reported as its own failure
\* entry of the aggregate response, so the response has an entry for it.
C9_PanicReportedAsEntry ==
    (mode = "aggregate" /\ pc = "returned") =>
        /\ ret.val.ok
        /\ Cardinality({k \in 1..Len(ret.val.val.results) : ret.val.val.results[k].error.some})
              >= Cardinality({i \in 1..Len(tasks) : tasks[i].st = "panicked"})

\* C10: in both modes a failing provider task neither cancels nor changes a sibling:
\* a step of one task leaves every other task as it was, and the dispatcher returns
\* (or emits the sentinel) only after every task ended, each task that ran to its
\* end having delivered its own outcome.
C10_SiblingsUnaffected ==
    /\ [](pc = "returned" =>
            \A i \in 1..Len(tasks) :
                /\ Ended(tasks[i])
                /\ tasks[i].st = "finished" =>
                      IF mode = "aggregate"
                      THEN /\ ret.val.ok
                           /\ \E k \in 1..Len(ret.val.val.results) :
                                 ret.val.val.results[k] = tasks[i].output.val
                      ELSE \E k \in 1..Len(events) : events[k].task = i /\ events[k].done)
    /\ [][\A i, j \in 1..Len(tasks) :
            (i # j /\ tasks'[i] # tasks[i]) => tasks'[j] = tasks[j]]_vars

C10_Witness ==
    /\ mode = "stream" /\ pc = "returned"
    /\ \E i, j \in 1..Len(tasks) :
          /\ tasks[i].st = "panicked"
          /\ tasks[j].st = "finished"
          /\ \E k \in 1..Len(events) :
                /\ events[k].task = j /\ events[k].done
                /\ events[k].text.some /\ events[k].text.val # <<>>

\* C11 as stated: the entries of the aggregate response are ordered by the order in
\* which their provider tasks completed, not by the order of the requested names.
C11_CompletionOrder ==
    (mode = "aggregate" /\ pc = "returned" /\ ret.val.ok) =>
        LET ran == SelectSeq(tasks, LAMBDA t : t.st = "finished")
        IN  \A k, l \in 1..Len(ran) :
                (k < l /\ ran[k].output.val # ran[l].output.val
                 /\ ret.val.val.results[k] = ran[k].output.val
                 /\ ret.val.val.results[l] = ran[l].output.val)
                => ran[k].ended_at < ran[l].ended_at

\* C11 as amended: the entries of the aggregate response follow the order of the names
\* in the effective provider list (the order of the join handles), whatever the order
\* in which the provider tasks completed.
C11_RequestOrder ==
    (mode = "aggregate" /\ pc = "returned" /\ ret.val.ok) =>
        \A k, l \in 1..Len(ret.val.val.results) :
            k < l =>
                \E i, j \in 1..Len(tasks) :
                    /\ i < j
                    /\ tasks[i].st = "finished" /\ tasks[i].output.val = ret.val.val.results[k]
                    /\ tasks[j].st = "finished" /\ tasks[j].output.val = ret.val.val.results[l]

C11_Witness ==
    /\ mode = "aggregate" /\ pc = "returned" /\ ret.val.ok
    /\ Len(tasks) = 2
    /\ tasks[1].st = "finished" /\ tasks[2].st = "finished"
    /\ tasks[2].ended_at < tasks[1].ended_at
    /\ tasks[1].output.val # tasks[2].output.val
    /\ ret.val.val.results = <<tasks[1].output.val, tasks[2].output.val>>

\* C12: for openai, claude, zhipu, groq and gemini, in both modes, a config slice with
\* no apiKey or an empty apiKey means the adapter is never invoked and the provider's
\* outcome carries the error "No API key configured".
C12_NoKeyNeverInvokes ==
    \A i \in 1..Len(tasks) :
        LET sc == service_config(request.config, tasks[i].service_name)
            nokey == \/ ~sc.some
                     \/ "apiKey" \notin DOMAIN sc.val
                     \/ sc.val["apiKey"] = JStr("")
        IN  (/\ to_lowercase(tasks[i].service_name) \in {"openai", "claude", "zhipu", "groq", "gemini"}
             /\ nokey
             /\ tasks[i].st # "spawned")
            => /\ ~tasks[i].invoked
               /\ IF mode = "aggregate"
                  THEN tasks[i].output.val.error = Some("No API key configured")
                  ELSE \E k \in 1..Len(events) :
                          /\ events[k].task = i /\ events[k].done
                          /\ events[k].error = Some("No API key configured")

\* C13: for ernie / wenxin / the Chinese spelling, in both modes, the adapter is invoked
\* if and only if apiKey and secretKey are both present, non-empty strings in the
\* provider's config slice; otherwise the task's only outcome is the error
\* "API key and secret key required" and the adapter is not invoked.
C13_ErnieNeedsBothKeys ==
    \A i \in 1..Len(tasks) :
        LET sc == service_config(request.config, tasks[i].service_name)
            present(key) == /\ sc.some
                            /\ key \in DOMAIN sc.val
                            /\ sc.val[key].str
                            /\ sc.val[key].s # ""
            mine == SelectSeq(events, LAMBDA e : e.task = i)
        IN  (/\ to_lowercase(tasks[i].service_name) \in {"ernie", "wenxin", WenxinYiyan}
             /\ tasks[i].st # "spawned")
            => /\ tasks[i].invoked <=> (present("apiKey") /\ present("secretKey"))
               /\ tasks[i].invoked => (tasks[i].adapter = "ernie" /\ tasks[i].config = sc)
               /\ ~tasks[i].invoked =>
                     IF mode = "aggregate"
                     THEN tasks[i].output =
                             Some([name |-> "Ernie", text |-> <<>>,
                                   error |-> Some("API key and secret key required")])
                     ELSE /\ Len(mine) = 1
                          /\ mine[1].done /\ ~mine[1].text.some /\ ~mine[1].delta.some
                          /\ mine[1].error = Some("API key and secret key required")

C13_Witness ==
    /\ mode = "stream"
    /\ Len(tasks) = 1
    /\ tasks[1].service_name = "wenxin"
    /\ tasks[1].st = "finished"
    /\ ~tasks[1].invoked
    /\ service_config(request.config, "wenxin").some
    /\ get(service_config(request.config, "wenxin").val, "apiKey") = Some(JStr("sk-1"))
    /\ get(service_config(request.config, "wenxin").val, "secretKey") = Some(JStr(""))
    /\ \E k \in 1..Len(events) : events[k].error = Some("API key and secret key required")

C16_CaseInsensitiveResolution ==
    \A i \in 1..Len(tasks) :
        LET n == tasks[i].service_name
            Spellings ==
                {[names |-> {"OpenAI", "openai"}, adapter |-> "openai", key |-> "openai"],
                 [names |-> {"Claude", "claude"}, adapter |-> "claude", key |-> "claude"],
                 [names |-> {"Zhipu", "ZHIPU", "zhipu"}, adapter |-> "openai", key |-> "zhipu"],
                 [names |-> {"Groq", "groq"}, adapter |-> "openai", key |-> "groq"],
                 [names |-> {"Gemini", "gemini"}, adapter |-> "openai", key |-> "gemini"],
                 [names |-> {"DeepL", "deepl"}, adapter |-> "deepl", key |-> "deepl"],
                 [names |-> {"GoogleFree", "googlefree"}, adapter |-> "google_free",
                  key |-> "googlefree"],
                 [names |-> {"Google Native", "google native"}, adapter |-> "google_free",
                  key |-> "google native"]}
            Decision(m) ==
                IF mode = "aggregate"
                THEN LET r == AggregateResolve(m, request.config)
                     IN  <<r.invoke, r.adapter, r.config>>
                ELSE LET r == StreamResolve(m, request.config)
                     IN  <<r.kind # "error", r.adapter, r.config>>
        IN  tasks[i].st # "spawned" =>
               /\ \A g \in Spellings :
                     n \in g.names =>
                        /\ tasks[i].invoked => tasks[i].adapter = g.adapter
                        /\ service_config(request.config, n) =
                              IF request.config.some /\ g.key \in DOMAIN request.config.val
                              THEN Some(request.config.val[g.key]) ELSE None
                        /\ \A m \in g.names :
                              <<tasks[i].invoked, tasks[i].adapter, tasks[i].config>> = Decision(m)
               /\ n \in {"Google Native", "google native"} =>
                     (tasks[i].invoked /\ tasks[i].adapter = "google_free")

C16_Witness ==
    /\ mode = "stream"
    /\ Len(tasks) = 1
    /\ tasks[1].service_name = "ZHIPU"
    /\ tasks[1].invoked
    /\ tasks[1].adapter = "openai"
    /\ get(tasks[1].config.val, "apiKey") = get(request.config.val["zhipu"], "apiKey")

\* C20: the sentinel event has service = "", all_done = true, done = true and no text,
\* delta or error, and it is the only event of a translate_stream call with
\* all_done = true or with an empty service field.
C20_SentinelOnlyEmptyService ==
    \A k \in 1..Len(events) :
        (events[k].all_done \/ events[k].service = "") =>
            /\ events[k] = [request_id |-> request_id, service |-> "", delta |-> None,
                            text |-> None, error |-> None, done |-> TRUE, all_done |-> TRUE,
                            task |-> 0]
            /\ \A l \in 1..Len(events) :
                  (events[l].all_done \/ events[l].service = "") => l = k

\* C15: in both modes a requested name that matches no provider ("unknown-x") yields
\* exactly one outcome for that name, with error "Service not supported", and the
\* sibling tasks of the same request still deliver their own outcomes.
C15_UnknownNameOneOutcome ==
    pc = "returned" =>
        \A i \in 1..Len(tasks) :
            tasks[i].service_name = "unknown-x" =>
                /\ tasks[i].st = "finished"
                /\ ~tasks[i].invoked
                /\ IF mode = "aggregate"
                   THEN /\ tasks[i].output =
                              Some([name |-> "unknown-x", text |-> <<>>,
                                    error |-> Some("Service not supported")])
                        /\ ret.val.ok
                        /\ Cardinality({k \in 1..Len(ret.val.val.results) :
                                           ret.val.val.results[k].name = "unknown-x"})
                              = Cardinality({j \in 1..Len(tasks) :
                                                tasks[j].service_name = "unknown-x"})
                        /\ Len(ret.val.val.results)
                              = Cardinality({j \in 1..Len(tasks) : tasks[j].st = "finished"})
                   ELSE /\ SelectSeq(events, LAMBDA e : e.task = i) =
                              <<[request_id |-> request_id, service |-> "unknown-x",
                                 delta |-> None, text |-> None,
                                 error |-> Some("Service not supported"),
                                 done |-> TRUE, all_done |-> FALSE, task |-> i]>>
                        /\ \A j \in 1..Len(tasks) :
                              tasks[j].st = "finished" =>
                                 Cardinality({k \in 1..Len(events) :
                                                 events[k].task = j /\ events[k].done}) = 1

C15_Witness ==
    /\ mode = "stream" /\ pc = "returned"
    /\ Len(tasks) = 2
    /\ tasks[1].service_name = "unknown-x"
    /\ tasks[2].service_name = "DeepL"
    /\ \E k, l \in 1..Len(events) :
          /\ events[k].task = 1 /\ events[k].error = Some("Service not supported")
          /\ events[l].task = 2 /\ events[l].text = Some(<<"h", "i">>)

\* C17: in both modes, when request.services is empty the tasks are those of the fixed
\* list OpenAI, DeepL, Alibaba, GoogleFree (four tasks, in that order); when it is
\* not empty the tasks are exactly those of request.services.
C17_DefaultProviderSet ==
    pc # "idle" =>
        LET names == [i \in 1..Len(tasks) |-> tasks[i].service_name]
        IN  IF request.services = <<>>
            THEN names = <<"OpenAI", "DeepL", "Alibaba", "GoogleFree">>
            ELSE names = request.services

C17_Witness ==
    /\ mode = "stream" /\ pc = "returned"
    /\ request.services = <<>>
    /\ Len(tasks) = 4
    /\ tasks[3].service_name = "Alibaba"
    /\ tasks[3].invoked

\* C18: in streaming mode the task of a provider without a streaming adapter (deepl,
\* google, alibaba, googlefree) emits exactly one event: a terminal event with
\* done = true, carrying either the full text or an error, and never a delta.
C18_NonStreamingOneEvent ==
    (mode = "stream" /\ pc = "returned") =>
        \A i \in 1..Len(tasks) :
            to_lowercase(tasks[i].service_name)
                \in {"deepl", "google", "alibaba", "googlefree", "google native"} =>
                LET mine == SelectSeq(events, LAMBDA e : e.task = i)
                IN  /\ Len(mine) = 1
                    /\ mine[1].done /\ ~mine[1].all_done
                    /\ ~mine[1].delta.some
                    /\ mine[1].text.some # mine[1].error.some

\* C19: every stream event and every aggregate result is well formed: error is never
\* set together with a non-empty text or delta; a delta event has done = false and
\* neither text nor error; a provider's terminal event has done = true and exactly
\* one of text and error.
C19_WellFormed ==
    /\ \A k \in 1..Len(events) :
          LET e == events[k]
          IN  /\ e.error.some => /\ ~(e.text.some /\ e.text.val # <<>>)
                                 /\ ~(e.delta.some /\ e.delta.val # <<>>)
              /\ e.delta.some => (~e.done /\ ~e.all_done /\ ~e.text.some /\ ~e.error.some)
              /\ (~e.delta.some /\ ~e.all_done) => (e.done /\ (e.text.some # e.error.some))
    /\ \A i \in 1..Len(tasks) :
          (tasks[i].output.some /\ tasks[i].output.val.error.some) =>
              tasks[i].output.val.text = <<>>
    /\ (ret.some /\ ret.val.ok /\ mode = "aggregate") =>
          \A k \in 1..Len(ret.val.val.results) :
              ret.val.val.results[k].error.some => ret.val.val.results[k].text = <<>>

C19_Witness ==
    /\ mode = "stream" /\ pc = "returned"
    /\ \E k, l, m \in 1..Len(events) :
          /\ events[k].delta.some
          /\ events[l].done /\ events[l].text.some /\ events[l].task = events[k].task
          /\ events[m].done /\ events[m].error.some /\ events[m].task # events[k].task

\* C21: in aggregate mode the name of each result is the provider's display name,
\* whatever the letter case (or alias) of the requested name: requesting "zhipu"
\* yields "Zhipu", for success, adapter-error and missing-credential outcomes alike.
C21_AggregateDisplayName ==
    LET Display ==
            {[names |-> {"OpenAI", "openai"}, display |-> "OpenAI"],
             [names |-> {"Claude", "claude"}, display |-> "Claude"],
             [names |-> {"Ernie", "wenxin", WenxinYiyan}, display |-> "Ernie"],
             [names |-> {"Zhipu", "ZHIPU", "zhipu"}, display |-> "Zhipu"],
             [names |-> {"Groq", "groq"}, display |-> "Groq"],
             [names |-> {"Gemini", "gemini"}, display |-> "Gemini"],
             [names |-> {"DeepL", "deepl"}, display |-> "DeepL"],
             [names |-> {"Google"}, display |-> "Google"],
             [names |-> {"Alibaba"}, display |-> "Alibaba"],
             [names |-> {"GoogleFree", "googlefree", "Google Native", "google native"},
              display |-> "GoogleFree"]}
    IN  \A i \in 1..Len(tasks) :
            (mode = "aggregate" /\ tasks[i].output.some) =>
                \A g \in Display :
                    tasks[i].service_name \in g.names =>
                        /\ tasks[i].output.val.name = g.display
                        /\ pc = "returned" =>
                              (ret.val.ok /\ \E k \in 1..Len(ret.val.val.results) :
                                                 ret.val.val.results[k].name = g.display)

C21_Witness ==
    /\ mode = "aggregate" /\ pc = "returned"
    /\ Len(tasks) = 1
    /\ tasks[1].service_name = "zhipu"
    /\ tasks[1].invoked
    /\ ret.val.ok
    /\ ret.val.val.results = <<[name |-> "Zhipu", text |-> <<"h", "i">>, error |-> None]>>

\* C22: in streaming mode the service field of every event but the sentinel is the
\* provider's display name, the value aggregate mode puts in name for the same
\* requested provider, and not the requested string as the caller spelled it.
C22_StreamServiceIsDisplayName ==
    LET Display ==
            {[names |-> {"OpenAI", "openai"}, display |-> "OpenAI"],
             [names |-> {"Claude", "claude"}, display |-> "Claude"],
             [names |-> {"Ernie", "wenxin", WenxinYiyan}, display |-> "Ernie"],
             [names |-> {"Zhipu", "ZHIPU", "zhipu"}, display |-> "Zhipu"],
             [names |-> {"Groq", "groq"}, display |-> "Groq"],
             [names |-> {"Gemini", "gemini"}, display |-> "Gemini"],
             [names |-> {"DeepL", "deepl"}, display |-> "DeepL"],
             [names |-> {"Google"}, display |-> "Google"],
             [names |-> {"Alibaba"}, display |-> "Alibaba"],
             [names |-> {"GoogleFree", "googlefree", "Google Native", "google native"},
              display |-> "GoogleFree"]}
    IN  \A k \in 1..Len(events) :
            ~events[k].all_done =>
                \A g \in Display :
                    tasks[events[k].task].service_name \in g.names =>
                        events[k].service = g.display

\* C23: every event emitted by one translate_stream call, the sentinel included,
\* carries the request_id the caller supplied, unchanged.
C23_RequestIdEchoed ==
    /\ \A k \in 1..Len(events) : events[k].request_id = request_id
    /\ (mode = "stream" /\ pc = "returned") =>
          (events # <<>> /\ events[Len(events)].all_done
                         /\ events[Len(events)].request_id = request_id)

C23_Witness ==
    /\ mode = "stream" /\ pc = "returned"
    /\ request_id = "req-2"
    /\ Len(events) >= 4
    /\ \E k \in 1..Len(events) : events[k].delta.some /\ events[k].request_id = "req-2"
    /\ \E k \in 1..Len(events) : events[k].error.some /\ events[k].request_id = "req-2"
    /\ events[Len(events)].all_done /\ events[Len(events)].request_id = "req-2"

\* C24: in streaming mode a failed delivery to the event sink is swallowed and not
\* retried: each fragment and each terminal outcome is handed to the sink once, whether
\* or not deliveries failed; a task whose emit failed still reaches its terminal emit;
\* the dispatcher still awaits every task and attempts the sentinel, and
\* translate_stream returns success.
C24_EmitFailureSwallowed ==
    /\ \A i \in 1..Len(tasks) :
          /\ Cardinality({k \in 1..Len(events) : events[k].task = i /\ events[k].delta.some})
                = tasks[i].ndeltas
          /\ Cardinality({k \in 1..Len(events) : events[k].task = i /\ events[k].done})
                = IF mode = "stream" /\ tasks[i].st = "finished" THEN 1 ELSE 0
    /\ Cardinality({k \in 1..Len(events) : events[k].all_done})
          = IF mode = "stream" /\ pc = "returned" THEN 1 ELSE 0
    /\ (mode = "stream" /\ pc = "returned") =>
          /\ ret = Some(Ok("()"))
          /\ \A i \in 1..Len(tasks) : Ended(tasks[i])
          /\ events[Len(events)].all_done

C24_Witness ==
    /\ mode = "stream" /\ pc = "returned"
    /\ ret = Some(Ok("()"))
    /\ Len(events) \in sink.lost
    /\ \E k \in sink.lost, l \in 1..Len(events) :
          /\ events[k].delta.some
          /\ k < l /\ l \notin sink.lost
          /\ events[l].task = events[k].task /\ events[l].done /\ events[l].text.some

\* C25: each streaming adapter calls on_delta only with non-empty fragments, in arrival
\* order and only before it returns, and on success the string it returns is the
\* concatenation of all the fragments it passed to on_delta.
C25_OnlyNonEmptyFragments ==
    parser.adapter # "none" =>
        /\ \A k \in 1..Len(parser.delivered) : parser.delivered[k] # <<>>
        /\ (parser.result.some /\ parser.result.val.ok) =>
              parser.result.val.val = Concat(parser.delivered)

\* C26: in the chat-completion-style streaming adapters a data line whose payload is
\* not valid JSON is skipped for that line only: the call does not fail because of it
\* and goes on reading the stream.
C26_BadLineSkipped ==
    (parser.adapter \in {"openai", "claude"} /\ parser.bad_read) =>
        /\ parser.result.some => (parser.result.val.ok \/ parser.result.val.err = "Stream error: ")
        /\ (parser.result.some /\ parser.result.val.ok /\ ~parser.done_read) =>
              parser.stream = <<>>

\* C27: once a streaming adapter has read the end-of-stream line [DONE], the call has
\* returned success with the text accumulated so far, and nothing that follows the
\* line in the stream is read or delivered to on_delta.
C27_DoneEndsTheCall ==
    /\ [](parser.adapter # "none" /\ parser.done_read =>
            /\ parser.result = Some(Ok(parser.full_text))
            /\ parser.full_text = Concat(parser.delivered))
    /\ [][parser.adapter # "none" /\ parser.done_read => parser' = parser]_vars

C27_Witness ==
    /\ parser.adapter = "openai"
    /\ parser.done_read
    /\ parser.result = Some(Ok(<<"B", "o", "n">>))
    /\ parser.buffer = <<Piece(TBon, TRUE)>>

\* C28: deepl::translate uses as its key the config's apiKey when the config slice has
\* a string apiKey (even an empty one), otherwise the environment variable, otherwise
\* the entry of the .env file, in that order; when none exists it fails without a
\* network call.
C28_KeyPrecedence ==
    (call.fn = "deepl" /\ call.output.some) =>
        LET input == call.input
            out == call.output.val
            entries == IF input.dotenv.some
                       THEN SelectSeq(input.dotenv.val, LAMBDA l : l.name = "DEEPL_API_KEY")
                       ELSE <<>>
        IN  IF /\ input.config.some
               /\ "apiKey" \in DOMAIN input.config.val
               /\ input.config.val["apiKey"].str
            THEN out.sent /\ out.api_key = Some(input.config.val["apiKey"].s)
            ELSE IF input.env.some
                 THEN out.sent /\ out.api_key = input.env
                 ELSE IF entries # <<>>
                      THEN out.sent /\ out.api_key = Some(entries[1].value)
                      ELSE ~out.sent /\ ~out.result.ok

C28_Witness ==
    /\ call.fn = "deepl"
    /\ call.input.config = Some([k \in {"apiKey"} |-> JStr("")])
    /\ call.input.env = Some("k-env")
    /\ call.input.dotenv = Some(<<EnvLine("DEEPL_API_KEY", "k-file")>>)
    /\ call.output.some
    /\ call.output.val.sent
    /\ call.output.val.api_key = Some("")

\* C29: deepl::translate maps the target-language code through a fixed table, ignoring
\* letter case: ZH and ZH-HANS to ZH, EN to EN-US, JA, KO, FR, DE, ES and RU to
\* themselves, and every other code to the default EN-US.
C29_TargetLangTable ==
    (call.fn = "deepl" /\ call.output.some /\ call.output.val.sent) =>
        LET t == call.input.target_lang
        IN  call.output.val.target =
               CASE t \in {"zh", "ZH", "zh-hans", "ZH-Hans", "ZH-HANS"} -> "ZH"
                 [] t \in {"en", "EN", "En"} -> "EN-US"
                 [] t \in {"ja", "JA"} -> "JA"
                 [] t \in {"ko", "KO"} -> "KO"
                 [] t \in {"fr", "FR"} -> "FR"
                 [] t \in {"de", "DE"} -> "DE"
                 [] t \in {"es", "ES"} -> "ES"
                 [] t \in {"ru", "RU"} -> "RU"
                 [] OTHER -> "EN-US"

C29_Witness ==
    /\ call.fn = "deepl"
    /\ call.input.target_lang = "zh-hans"
    /\ call.output.some
    /\ call.output.val.sent
    /\ call.output.val.target = "ZH"

\* C30: google_free::translate returns as text the concatenation, in order, of the
\* first element of each inner sentence array of a successful response; when that
\* concatenation is empty it returns an error, never a success with an empty text.
C30_ConcatOrError ==
    (/\ call.fn = "google_free" /\ call.output.some
     /\ call.input.ok
     /\ as_array(call.input.body).some
     /\ as_array(call.input.body).val # <<>>
     /\ as_array(as_array(call.input.body).val[1]).some) =>
        LET sentences == as_array(as_array(call.input.body).val[1]).val
            usable == SelectSeq(sentences,
                                LAMBDA v : /\ as_array(v).some
                                           /\ as_array(v).val # <<>>
                                           /\ as_array(v).val[1].str)
            expected == Concat([k \in 1..Len(usable) |-> as_array(usable[k]).val[1].s])
        IN  IF expected = <<>>
            THEN call.output.val = Err("No translation found in response")
            ELSE call.output.val = Ok([name |-> "GoogleFree", text |-> expected, error |-> None])

C30_Witness ==
    /\ call.fn = "google_free"
    /\ call.input.ok
    /\ call.input.body = JArr(<<JArr(<<JArr(<<JStr(<<>>), JStr(<<"H", "i">>)>>), JArr(<<>>)>>), JOther>>)
    /\ call.output = Some(Err("No translation found in response"))

\* C31: translate and translate_stream resolve each provider identically: for every
\* provider name and config the running mode's decision on a task (adapter invoked or
\* not, which adapter, which config) is the decision the other mode makes, and a task
\* refused before the adapter call carries the same error message in both modes.
C31_ModesResolveAlike ==
    \A i \in 1..Len(tasks) :
        LET a == AggregateResolve(tasks[i].service_name, request.config)
            s == StreamResolve(tasks[i].service_name, request.config)
        IN  tasks[i].st # "spawned" =>
               /\ tasks[i].invoked = (IF mode = "aggregate" THEN a.invoke ELSE s.kind # "error")
               /\ a.invoke <=> s.kind # "error"
               /\ a.invoke => (a.adapter = s.adapter /\ a.config = s.config)
               /\ ~a.invoke => a.result.val.error = Some(s.error)

\* C32: in translate the collected results, and the entries of the returned response,
\* are the outputs of the tasks that ran to the end, in the order of their names in
\* the effective provider list (the order of the handles), whatever the order in which
\* the tasks finished.
C32_ResponseFollowsProviderList ==
    (mode = "aggregate" /\ pc \in {"fanin", "returned"}) =>
        LET collected == SelectSeq(SubSeq(tasks, 1, joined), LAMBDA t : t.st = "finished")
        IN  /\ Len(tasks) = Len(EffectiveServices(request))
            /\ \A i \in 1..Len(tasks) : tasks[i].service_name = EffectiveServices(request)[i]
            /\ final_results = [k \in 1..Len(collected) |-> collected[k].output.val]
            /\ (pc = "returned" /\ ret.val.ok) => ret.val.val.results = final_results

C32_Witness ==
    /\ mode = "aggregate" /\ pc = "returned" /\ ret.val.ok
    /\ request.services = <<"OpenAI", "DeepL">>
    /\ tasks[2].ended_at = 1 /\ tasks[1].ended_at = 2
    /\ Len(ret.val.val.results) = 2
    /\ ret.val.val.results[1].name = "OpenAI"
    /\ ret.val.val.results[2].name = "DeepL"

\* C33: for each streaming adapter, the fragments delivered to on_delta and the value
\* returned depend only on the concatenated content of the response stream: a call
\* that read its stream without a transport failure has delivered and returned what
\* the same adapter delivers and returns when the whole content arrives in one chunk.
C33_ChunkingDoesNotMatter ==
    (/\ parser.adapter # "none"
     /\ parser.result.some
     /\ parser.result.val # Err("Stream error: ")) =>
        LET whole == run_to_end(StartParser(parser.adapter, OneChunk(parser.content)))
        IN  /\ parser.delivered = whole.delivered
            /\ parser.result = whole.result

\* C34: openai-style translate_stream, when it returns success, has delivered every
\* non-empty fragment carried by a data line of the response body that occurs before
\* [DONE] or the end of the stream, a last data line without a newline included.
C34_EveryFragmentDelivered ==
    (/\ parser.adapter = "openai"
     /\ parser.result.some
     /\ parser.result.val.ok) =>
        LET body == lines(parser.content, <<>>)
            IsDone(k) == ParseLine(body[k]).kind = "done"
            Carried(k) == /\ ParseLine(body[k]).kind = "json"
                          /\ ParseLine(body[k]).fragment # <<>>
                          /\ \A j \in 1..k : ~IsDone(j)
            n == Cardinality({k \in 1..Len(body) : Carried(k)})
            \* the carried fragments in body order
            Nth(i) == CHOOSE k \in 1..Len(body) :
                          /\ Carried(k)
                          /\ Cardinality({j \in 1..k : Carried(j)}) = i
        IN  parser.delivered = [i \in 1..n |-> ParseLine(body[Nth(i)]).fragment]

\* C35: in streaming mode every event of one provider task (delta, success terminal,
\* error terminal) carries the same service value whatever the kind of the event: the
\* events of one task agree with each other and carry the value the task's error
\* terminal carries, so that a consumer can key them by service for any requested
\* spelling of the name.
C35_OneServiceValuePerTask ==
    mode = "stream" =>
        /\ \A k, l \in 1..Len(events) :
              (events[k].task # 0 /\ events[k].task = events[l].task) =>
                  events[k].service = events[l].service
        /\ \A k \in 1..Len(events) :
              events[k].task # 0 =>
                  \* emit_error puts the requested name, as spelled, in every error terminal
                  events[k].service = tasks[events[k].task].service_name

\* C36: all the aliases of one provider read the same config slice: a task requested as
\* "ernie", "wenxin" or the Chinese spelling (or as "googlefree" or "google native")
\* reaches, with the request's config, the readiness decision and the adapter config
\* that every other alias of the same provider would reach with that config.
C36_AliasesShareConfigSlice ==
    \A i \in 1..Len(tasks) :
        LET lower == to_lowercase(tasks[i].service_name)
            Aliases == {{"ernie", "wenxin", WenxinYiyan}, {"googlefree", "google native"}}
            Decision(m) ==
                IF mode = "aggregate"
                THEN LET r == AggregateResolve(m, request.config)
                     IN  <<r.invoke, r.adapter, r.config>>
                ELSE LET r == StreamResolve(m, request.config)
                     IN  <<r.kind # "error", r.adapter, r.config>>
        IN  tasks[i].st # "spawned" =>
               \A g \in Aliases :
                  lower \in g =>
                     \A m \in g :
                        /\ service_config(request.config, m) =
                              service_config(request.config, tasks[i].service_name)
                        /\ Decision(m) = <<tasks[i].invoked, tasks[i].adapter, tasks[i].config>>

\* C37: hotkey handling: at most one hotkey action runs at a time, under any
\* interleaving of handle_shortcut invocations and clear_hotkey_processing calls:
\* while an action is in progress no second action is started.
C37_OneActionAtATime ==
    Cardinality({k \in 1..Len(handlers) : Running(handlers[k])}) <= 1

\* C38: hotkey handling: whenever handle_shortcut sets is_processing to true, the path
\* of the action it triggered (input translation, screenshot OCR, silent OCR, unknown
\* action, every exit of the selection translation) eventually resets the flag to
\* false, so the flag never stays set forever.
C38_FlagEventuallyReset ==
    /\ \A k \in 1..MaxShortcuts :
          (k <= Len(handlers) /\ handlers[k].started)
              ~> (k <= Len(handlers) /\ handlers[k].cleared)
    /\ is_processing ~> ~is_processing

C38_Witness ==
    /\ Len(handlers) >= 1
    /\ handlers[1].action = "select_translation"
    /\ handlers[1].started
    /\ handlers[1].cleared
    /\ handlers[1].attempt = ClipboardAttempts
    /\ ~is_processing

====
